---- MODULE Spec2Model ----
(***************************************************************************)
(* Model of InTechNet.Uploader (src/uploader.py, src/utils/dataclasses.py). *)
(*                                                                         *)
(* upload() discovers the *.html resources of a module folder, sorts them  *)
(* by file name, reads the module's yaml descriptor, inserts the module    *)
(* row and then the resource rows, last resource first, so that each row   *)
(* can carry the id of its successor ("NextResourceId").                   *)
(*                                                                         *)
(* File names are sequences of code points, so that the string order used  *)
(* by list.sort, pathlib's suffix and the glob pattern are computed and    *)
(* not assumed.  A file's text is a string; yaml.safe_load is the table    *)
(* YamlLoad.  The database is two tables of rows and their id sequences.   *)
(***************************************************************************)
EXTENDS Integers, Sequences, FiniteSets, TLC

VARIABLES
    rootTree,             \* entries found under the PATH argument
    moduleOpt,            \* TRUE when --module was given
    metaTree,             \* entries found under the --module path
    subscription_plan_id, \* --subscriptionplan
    pc,                   \* the statement of upload() to execute next
    err,                  \* the exception that ended the run, or NoError
    resources,            \* upload(): the list of resources; the argument of
                          \* get_sorted_resources
    sorted_resources,     \* get_sorted_resources(): the sorted copy
    twice,                \* get_sorted_resources applied to its own result
    data,                 \* get_module_data(): the parsed descriptor
    module,               \* upload(): result of get_module
    module_id,            \* upload(): result of record_module
    todo,                 \* record_resources(): the reversed list still to insert
    next_resource_id,     \* record_resources(): id threaded through the loop
    moduleRows,           \* table "module"
    resourceRows,         \* table "resource"
    moduleSeq,            \* last value of the "module"."Id" sequence
    resourceSeq,          \* last value of the "resource"."Id" sequence
    calls                 \* the INSERT statements issued by this run, in order

vars == <<rootTree, moduleOpt, metaTree, subscription_plan_id, pc, err,
          resources, sorted_resources, twice, data, module, module_id, todo,
          next_resource_id, moduleRows, resourceRows, moduleSeq, resourceSeq,
          calls>>

(***************************************************************************)
(* Bounds of the model.                                                    *)
(***************************************************************************)
MaxEntries == 4   \* entries of a directory tree
MaxLen == 3       \* length of the lists given to get_sorted_resources alone
MaxKeys == 2      \* keys of a mapping of a descriptor given to get_module_data alone

(***************************************************************************)
(* None, and the exceptions.                                               *)
(***************************************************************************)
Null == 0

NoError == [kind |-> "none", message |-> "none"]

NoFileError ==
    [kind |-> "FileNotFoundError",
     message |-> "No module yaml configuration file found"]

MultipleFilesError ==
    [kind |-> "FileNotFoundError",
     message |-> "Multiple yaml configuration files found for this module"]

ModuleKeyError ==
    [kind |-> "KeyError",
     message |-> "Field module missing in the module configuration file"]

PropertiesKeyError ==
    [kind |-> "KeyError",
     message |-> "Unable to read name and description properties of the module"]

ModuleInitError ==
    [kind |-> "TypeError", message |-> "Module.__init__: bad arguments"]

ReadTextError ==
    [kind |-> "IsADirectoryError", message |-> "read_text of a directory"]

StorageError(at) == [kind |-> "psycopg2.Error", message |-> at]

(***************************************************************************)
(* File names.                                                             *)
(***************************************************************************)
DotHtml == <<46, 104, 116, 109, 108>>       \* ".html"
DotYml == <<46, 121, 109, 108>>             \* ".yml"
DotYaml == <<46, 121, 97, 109, 108>>        \* ".yaml"

NameA == <<97>> \o DotHtml                  \* "a.html"
NameADash == <<97, 45>> \o DotHtml          \* "a-.html"
NameB == <<98>> \o DotHtml                  \* "b.html"
NameD == <<100>> \o DotHtml                 \* "d.html"
NameM == <<109>> \o DotYml                  \* "m.yml"
NameN == <<110>> \o DotYaml                 \* "n.yaml"
NameK == <<107>> \o DotYml                  \* "k.yml"
NameHidden == DotYml                        \* ".yml"

Min(a, b) == IF a <= b THEN a ELSE b

\* str.__lt__: comparison of two strings, code point by code point.
StrLess(a, b) ==
    \E i \in 1..(Min(Len(a), Len(b)) + 1) :
        /\ \A j \in 1..(i - 1) : a[j] = b[j]
        /\ \/ i <= Len(a) /\ i <= Len(b) /\ a[i] < b[i]
           \/ i = Len(a) + 1 /\ i <= Len(b)

\* str.endswith, which is what the pattern "*.html" asks of a name.
EndsWith(name, tail) ==
    /\ Len(name) >= Len(tail)
    /\ SubSeq(name, Len(name) - Len(tail) + 1, Len(name)) = tail

\* PurePath.suffix: the name from its last dot on, unless that dot is the
\* first or the last character of the name.
Suffix(name) ==
    LET dots == {i \in 1..Len(name) : name[i] = 46}
    IN  IF dots = {} THEN <<>>
        ELSE LET i == CHOOSE d \in dots : \A e \in dots : e <= d
             IN  IF 1 < i /\ i < Len(name)
                 THEN SubSeq(name, i, Len(name))
                 ELSE <<>>

(***************************************************************************)
(* Directory trees.  An entry is a file or a directory found at some depth *)
(* below the given path (depth 0: directly in it).                         *)
(***************************************************************************)
File(name, depth, text) ==
    [name |-> name, depth |-> depth, kind |-> "file", text |-> text]

Dir(name, depth) ==
    [name |-> name, depth |-> depth, kind |-> "dir", text |-> ""]

\* Depth 0 is the given directory itself, depth 1 a subdirectory of it.
Depths == {0, 1}

Deepest == CHOOSE d \in Depths : \A e \in Depths : e <= d

\* The text of the content file of a name found at a depth: the two a.html
\* have the same text, the two a-.html different texts.
HtmlText(name, depth) ==
    IF name = NameA THEN "1"
    ELSE IF name = NameB THEN "2"
    ELSE IF depth = 0 THEN "1" ELSE "2"

DescriptorTexts == {"valid", "nomodule", "extra", "nameonly"}

Catalogue ==
    {File(n, d, HtmlText(n, d)) : n \in {NameA, NameADash, NameB}, d \in Depths}
    \cup {Dir(NameD, 0), Dir(NameK, 0), File(NameHidden, 0, "valid")}
    \cup {File(NameM, 0, t) : t \in DescriptorTexts}
    \cup {File(NameN, Deepest, "valid")}

Key(e) == <<e.name, e.depth>>

RECURSIVE TreesUpTo(_)
TreesUpTo(n) ==
    IF n = 0 THEN {{}}
    ELSE LET smaller == TreesUpTo(n - 1)
         IN  smaller \cup
             {t \cup {e} : <<t, e>> \in
                 {<<t, e>> \in smaller \X Catalogue :
                     \A f \in t : Key(f) # Key(e)}}

Trees == TreesUpTo(MaxEntries)

MetaTrees ==
    {{}, {File(NameM, 0, "valid")},
     {File(NameM, 0, "valid"), File(NameN, Deepest, "valid")}}

\* The orders in which a directory scan may list a set of entries.
RECURSIVE Listings(_)
Listings(S) ==
    IF S = {} THEN {<<>>}
    ELSE UNION {{<<e>> \o l : l \in Listings(S \ {e})} : e \in S}

(***************************************************************************)
(* utils/dataclasses.py                                                    *)
(***************************************************************************)
Resource(content, name) ==
    [content |-> content, name |-> name, next_resource |-> Null]

Module(description, name) ==
    [description |-> description, name |-> name, first_resource |-> Null]

NoModule == [none |-> TRUE]

\* What a call returns: a value, or the exception it raised.
Return(value) == [err |-> NoError, value |-> value]

Raise(e) == [err |-> e, value |-> Null]

\* Module(**kwargs), the __init__ the dataclass generates: description and
\* name are required, first_resource is optional, nothing else is accepted.
ModuleInit(kwargs) ==
    IF /\ {"description", "name"} \subseteq DOMAIN kwargs
       /\ DOMAIN kwargs \subseteq {"description", "name", "first_resource"}
    THEN Return([description |-> kwargs["description"],
                 name |-> kwargs["name"],
                 first_resource |->
                     IF "first_resource" \in DOMAIN kwargs
                     THEN kwargs["first_resource"] ELSE Null])
    ELSE Raise(ModuleInitError)

(***************************************************************************)
(* get_resources                                                           *)
(***************************************************************************)
\* path.glob('*.html'): the entries of the directory itself.
GlobHtmlTop(tree) == {e \in tree : EndsWith(e.name, DotHtml) /\ e.depth = 0}

\* path.glob('**/*.html'): the entries at any depth whose name ends in .html.
GlobHtml(tree) == {e \in tree : EndsWith(e.name, DotHtml)}

\* The list get_resources builds from one listing of the glob.
GetResources(listing) ==
    IF \E i \in 1..Len(listing) : listing[i].kind = "dir"
    THEN Raise(ReadTextError)
    ELSE Return([i \in 1..Len(listing) |->
                    Resource(listing[i].text, listing[i].name)])

(***************************************************************************)
(* get_sorted_resources                                                    *)
(***************************************************************************)
\* key=lambda resource: resource.name
SortKey(resource) == resource.name

\* A sort that is not stable: x goes before the elements of equal key.
SortInsertUnstable(sorted, x) ==
    LET k == Cardinality({i \in 1..Len(sorted) :
                 StrLess(SortKey(sorted[i]), SortKey(x))})
    IN  SubSeq(sorted, 1, k) \o <<x>> \o SubSeq(sorted, k + 1, Len(sorted))

\* One step of the stable sort: x goes after every element whose key is not
\* greater than its own.
SortInsert(sorted, x) ==
    LET k == Cardinality({i \in 1..Len(sorted) :
                 ~StrLess(SortKey(x), SortKey(sorted[i]))})
    IN  SubSeq(sorted, 1, k) \o <<x>> \o SubSeq(sorted, k + 1, Len(sorted))

RECURSIVE SortFrom(_, _)
SortFrom(sorted, rest) ==
    IF rest = <<>> THEN sorted
    ELSE SortFrom(SortInsert(sorted, Head(rest)), Tail(rest))

\* list.sort(key=...) on a copy of the list.
GetSortedResources(list) == SortFrom(<<>>, list)

(***************************************************************************)
(* get_module, get_module_data                                             *)
(***************************************************************************)
\* yaml.safe_load of a descriptor's text.
YamlLoad(text) ==
    CASE text = "valid" ->
            [module |-> [name |-> "A", description |-> "B"]]
      [] text = "nomodule" ->
            [title |-> "A"]
      [] text = "extra" ->
            [module |-> [name |-> "A", description |-> "B", author |-> "C"]]
      [] text = "nameonly" ->
            [module |-> [name |-> "A"]]

PropertyKeys == {"name", "description"}

\* A validation that asks for each property to be present, and for nothing
\* else.
GetModuleDataRequiring(d) ==
    IF "module" \notin DOMAIN d
    THEN Raise(ModuleKeyError)
    ELSE IF ~(\A key \in PropertyKeys : key \in DOMAIN d["module"])
    THEN Raise(PropertiesKeyError)
    ELSE ModuleInit(d["module"])

GetModuleData(d) ==
    IF "module" \notin DOMAIN d
    THEN Raise(ModuleKeyError)
    ELSE IF ~(\A key \in DOMAIN d["module"] : key \in PropertyKeys)
    THEN Raise(PropertiesKeyError)
    ELSE ModuleInit(d["module"])

\* The files get_module keeps from module.glob('**/*').
ModuleConfFiles(tree) ==
    {e \in tree : e.kind = "file" /\ Suffix(e.name) \in {DotYml, DotYaml}}

GetModule(tree) ==
    LET module_conf_files == ModuleConfFiles(tree)
    IN  IF Cardinality(module_conf_files) < 1
        THEN Raise(NoFileError)
        ELSE IF Cardinality(module_conf_files) > 1
        THEN Raise(MultipleFilesError)
        ELSE GetModuleData(
                 YamlLoad((CHOOSE f \in module_conf_files : TRUE).text))

(***************************************************************************)
(* The database: record_module, record_resource                            *)
(***************************************************************************)
\* Where a call of record_module or record_resource can end: it returns, or
\* an exception is raised by connect, by execute (or fetchone) or by commit,
\* in which case nothing is committed, or by the close that follows the
\* commit, in which case the row is.
InsertOutcomes == {"ok", "connect", "execute", "commit", "close"}

\* The outcomes in which the INSERT has been committed.
Committed(outcome) == outcome \in {"ok", "close"}

\* The outcomes in which fetchone has given the generated id.
Fetched(outcome) == outcome \in {"ok", "commit", "close"}

\* The outcomes in which the INSERT has failed.
InsertFailed(outcome) == outcome \in {"connect", "execute", "commit"}

\* The sequence of a table after an insert: a statement that reached the
\* server has drawn a value from it, committed or not.
SeqAfter(seq, outcome) == IF outcome = "connect" THEN seq ELSE seq + 1

\* INSERT INTO "module" ("ModuleDescription", "SubscriptionPlanId", "ModuleName")
ModuleRow(id, m, plan) ==
    [Id |-> id, ModuleDescription |-> m.description,
     SubscriptionPlanId |-> plan, ModuleName |-> m.name]

\* A resource row that does not record its successor.
ResourceRowUnlinked(id, resource, mid, next) ==
    [Id |-> id, ModuleId |-> mid, Content |-> resource.content,
     NextResourceId |-> Null]

\* INSERT INTO "resource" ("ModuleId", "Content", "NextResourceId")
ResourceRow(id, resource, mid, next) ==
    [Id |-> id, ModuleId |-> mid, Content |-> resource.content,
     NextResourceId |-> next]

\* An exception swallowed by the function that met it.
PropagatesNever(outcome) == FALSE

\* try ... finally, with no except clause: an exception raised in the try
\* block leaves record_module and record_resource, and their callers.
Propagates(outcome) == outcome # "ok"

\* The id as it is before the insert: module_id = 0, resource_id = 0.
ReturnedInitial(id) == 0

\* What record_module and record_resource return of the generated id.
ReturnedId(id) == id

\* A successor id that is not carried to the next insert.
NextAfterForgotten(resource_id) == Null

ModuleCall(outcome, id) ==
    [table |-> "module", index |-> Null, module_id |-> Null,
     next_resource_id |-> Null, outcome |-> outcome, id |-> id]

ResourceCall(index, mid, next, outcome, id) ==
    [table |-> "resource", index |-> index, module_id |-> mid,
     next_resource_id |-> next, outcome |-> outcome, id |-> id]

\* The list as it is, not reversed.
NotReversed(list) == list

\* The reversed list without the first element of the list.
ReversedTail(list) == [i \in 1..(Len(list) - 1) |-> list[Len(list) + 1 - i]]

\* resources[::-1]
Reversed(list) == [i \in 1..Len(list) |-> list[Len(list) + 1 - i]]

\* The value record_resources gives next_resource_id after an insert.
NextAfter(resource_id) == resource_id

\* Rows a previous run may have left in the store.
EmptyStore ==
    [moduleRows |-> {}, resourceRows |-> {}, moduleSeq |-> 0, resourceSeq |-> 0]

UsedStore ==
    [moduleRows |-> {ModuleRow(1, Module("B", "A"), 1)},
     resourceRows |-> {ResourceRow(1, Resource("1", NameA), 1, 2),
                       ResourceRow(2, Resource("2", NameB), 1, Null)},
     moduleSeq |-> 1, resourceSeq |-> 3]

SubscriptionPlans == {1, 2}

(***************************************************************************)
(* upload                                                                  *)
(***************************************************************************)
ModulePathTree == IF moduleOpt THEN metaTree ELSE rootTree

Fail(e) ==
    /\ pc' = "error"
    /\ err' = e

Init ==
    /\ rootTree \in Trees
    /\ moduleOpt \in BOOLEAN
    /\ metaTree \in (IF moduleOpt THEN MetaTrees ELSE {{}})
    /\ subscription_plan_id \in SubscriptionPlans
    /\ \E store \in {EmptyStore, UsedStore} :
           /\ moduleRows = store.moduleRows
           /\ resourceRows = store.resourceRows
           /\ moduleSeq = store.moduleSeq
           /\ resourceSeq = store.resourceSeq
    /\ pc = "get_resources"
    /\ err = NoError
    /\ resources = <<>>
    /\ sorted_resources = <<>>
    /\ twice = <<>>
    /\ data = <<>>
    /\ module = NoModule
    /\ module_id = Null
    /\ todo = <<>>
    /\ next_resource_id = Null
    /\ calls = <<>>

\* resources = get_resources(root_path)
GetResourcesStep ==
    /\ pc = "get_resources"
    /\ \E listing \in Listings(GlobHtml(rootTree)) :
           LET r == GetResources(listing)
           IN  IF r.err = NoError
               THEN /\ resources' = r.value
                    /\ pc' = "get_sorted_resources"
                    /\ UNCHANGED err
               ELSE /\ Fail(r.err)
                    /\ UNCHANGED resources
    /\ UNCHANGED <<rootTree, moduleOpt, metaTree, subscription_plan_id,
                   sorted_resources, twice, data, module, module_id, todo,
                   next_resource_id, moduleRows, resourceRows, moduleSeq,
                   resourceSeq, calls>>

\* resources = get_sorted_resources(resources)
GetSortedResourcesStep ==
    /\ pc = "get_sorted_resources"
    /\ resources' = GetSortedResources(resources)
    /\ pc' = "get_module"
    /\ UNCHANGED <<rootTree, moduleOpt, metaTree, subscription_plan_id, err,
                   sorted_resources, twice, data, module, module_id, todo,
                   next_resource_id, moduleRows, resourceRows, moduleSeq,
                   resourceSeq, calls>>

\* module = get_module(module_path)
GetModuleStep ==
    /\ pc = "get_module"
    /\ LET r == GetModule(ModulePathTree)
           files == ModuleConfFiles(ModulePathTree)
       IN  /\ data' = IF Cardinality(files) = 1
                      THEN <<YamlLoad((CHOOSE f \in files : TRUE).text)>>
                      ELSE data
           /\ IF r.err = NoError
              THEN /\ module' = r.value
                   /\ pc' = "record_module"
                   /\ UNCHANGED err
              ELSE /\ Fail(r.err)
                   /\ UNCHANGED module
    /\ UNCHANGED <<rootTree, moduleOpt, metaTree, subscription_plan_id,
                   resources, sorted_resources, twice, module_id, todo,
                   next_resource_id, moduleRows, resourceRows, moduleSeq,
                   resourceSeq, calls>>

\* module_id = record_module(module, subscription_plan_id)
RecordModuleStep ==
    /\ pc = "record_module"
    /\ \E outcome \in InsertOutcomes :
           LET id == moduleSeq + 1
           IN  /\ moduleSeq' = SeqAfter(moduleSeq, outcome)
               /\ moduleRows' =
                      IF Committed(outcome)
                      THEN moduleRows \cup
                               {ModuleRow(id, module, subscription_plan_id)}
                      ELSE moduleRows
               /\ calls' = Append(calls,
                      ModuleCall(outcome,
                                 IF Committed(outcome) THEN id ELSE Null))
               /\ IF Propagates(outcome)
                  THEN /\ Fail(StorageError(outcome))
                       /\ UNCHANGED module_id
                  ELSE /\ module_id' =
                              IF Fetched(outcome) THEN ReturnedId(id) ELSE 0
                       /\ pc' = "record_resources"
                       /\ UNCHANGED err
    /\ UNCHANGED <<rootTree, moduleOpt, metaTree, subscription_plan_id,
                   resources, sorted_resources, twice, data, module, todo,
                   next_resource_id, resourceRows, resourceSeq>>

\* record_resources: resources = resources[::-1]; next_resource_id = None
RecordResourcesEnter ==
    /\ pc = "record_resources"
    /\ todo' = Reversed([i \in 1..Len(resources) |-> i])
    /\ next_resource_id' = Null
    /\ pc' = "loop"
    /\ UNCHANGED <<rootTree, moduleOpt, metaTree, subscription_plan_id, err,
                   resources, sorted_resources, twice, data, module,
                   module_id, moduleRows, resourceRows, moduleSeq,
                   resourceSeq, calls>>

\* record_resources: one turn of the loop, a call of record_resource
RecordResourceStep ==
    /\ pc = "loop"
    /\ todo # <<>>
    /\ \E outcome \in InsertOutcomes :
           LET id == resourceSeq + 1
               index == Head(todo)
               resource == resources[index]
           IN  /\ resourceSeq' = SeqAfter(resourceSeq, outcome)
               /\ resourceRows' =
                      IF Committed(outcome)
                      THEN resourceRows \cup
                               {ResourceRow(id, resource, module_id,
                                            next_resource_id)}
                      ELSE resourceRows
               /\ calls' = Append(calls,
                      ResourceCall(index, module_id, next_resource_id, outcome,
                                   IF Committed(outcome) THEN id ELSE Null))
               /\ IF Propagates(outcome)
                  THEN /\ Fail(StorageError(outcome))
                       /\ UNCHANGED <<next_resource_id, todo>>
                  ELSE /\ next_resource_id' =
                              NextAfter(IF Fetched(outcome)
                                        THEN ReturnedId(id) ELSE 0)
                       /\ todo' = Tail(todo)
                       /\ UNCHANGED <<pc, err>>
    /\ UNCHANGED <<rootTree, moduleOpt, metaTree, subscription_plan_id,
                   resources, sorted_resources, twice, data, module,
                   module_id, moduleRows, moduleSeq>>

\* record_resources returns, and upload with it
RecordResourcesReturn ==
    /\ pc = "loop"
    /\ todo = <<>>
    /\ pc' = "done"
    /\ UNCHANGED <<rootTree, moduleOpt, metaTree, subscription_plan_id, err,
                   resources, sorted_resources, twice, data, module,
                   module_id, todo, next_resource_id, moduleRows,
                   resourceRows, moduleSeq, resourceSeq, calls>>

Next ==
    \/ GetResourcesStep
    \/ GetSortedResourcesStep
    \/ GetModuleStep
    \/ RecordModuleStep
    \/ RecordResourcesEnter
    \/ RecordResourceStep
    \/ RecordResourcesReturn

Spec == Init /\ [][Next]_vars

(***************************************************************************)
(* get_sorted_resources on its own, over every list of at most MaxLen      *)
(* resources, then applied to its own result.                              *)
(***************************************************************************)
SortItems ==
    {Resource(c, n) : c \in {"1", "2"}, n \in {NameA, NameADash, NameB}}

RECURSIVE ListsUpTo(_, _)
ListsUpTo(S, n) ==
    IF n = 0 THEN {<<>>}
    ELSE LET shorter == ListsUpTo(S, n - 1)
         IN  shorter \cup {Append(l, x) : l \in shorter, x \in S}

\* The variables of upload() a call of one function alone leaves alone.
NoUpload ==
    /\ rootTree = {}
    /\ moduleOpt = FALSE
    /\ metaTree = {}
    /\ subscription_plan_id = 1
    /\ err = NoError
    /\ module = NoModule
    /\ module_id = Null
    /\ todo = <<>>
    /\ next_resource_id = Null
    /\ moduleRows = {}
    /\ resourceRows = {}
    /\ moduleSeq = 0
    /\ resourceSeq = 0
    /\ calls = <<>>

InitSort ==
    /\ resources \in ListsUpTo(SortItems, MaxLen)
    /\ sorted_resources = <<>>
    /\ twice = <<>>
    /\ data = <<>>
    /\ pc = "sort"
    /\ NoUpload

\* get_sorted_resources(resources)
SortCall ==
    /\ pc = "sort"
    /\ sorted_resources' = GetSortedResources(resources)
    /\ pc' = "sorted"
    /\ UNCHANGED <<rootTree, moduleOpt, metaTree, subscription_plan_id, err,
                   resources, twice, data, module, module_id, todo,
                   next_resource_id, moduleRows, resourceRows, moduleSeq,
                   resourceSeq, calls>>

\* get_sorted_resources(get_sorted_resources(resources))
SortAgain ==
    /\ pc = "sorted"
    /\ twice' = GetSortedResources(sorted_resources)
    /\ pc' = "sorted_twice"
    /\ UNCHANGED <<rootTree, moduleOpt, metaTree, subscription_plan_id, err,
                   resources, sorted_resources, data, module, module_id,
                   todo, next_resource_id, moduleRows, resourceRows,
                   moduleSeq, resourceSeq, calls>>

NextSort ==
    \/ SortCall
    \/ SortAgain

SpecSort == InitSort /\ [][NextSort]_vars

(***************************************************************************)
(* get_module_data on its own, over the documents yaml.safe_load may       *)
(* return: a mapping with or without the key module, whose value is a      *)
(* mapping of at most MaxKeys keys.                                        *)
(***************************************************************************)
KeyPool == {"name", "description", "author", "first_resource"}

Mappings ==
    UNION {[K -> {"A", "B"}] :
              K \in {K \in SUBSET KeyPool : Cardinality(K) <= MaxKeys}}

Documents ==
    {[k \in top |-> IF k = "module" THEN m ELSE "T"] :
        top \in SUBSET {"module", "title"}, m \in Mappings}

InitData ==
    /\ data \in {<<d>> : d \in Documents}
    /\ resources = <<>>
    /\ sorted_resources = <<>>
    /\ twice = <<>>
    /\ pc = "get_module_data"
    /\ NoUpload

\* get_module_data(module_file), from the document safe_load returned
GetModuleDataCall ==
    /\ pc = "get_module_data"
    /\ LET r == GetModuleData(data[1])
       IN  IF r.err = NoError
           THEN /\ module' = r.value
                /\ pc' = "returned"
                /\ UNCHANGED err
           ELSE /\ Fail(r.err)
                /\ UNCHANGED module
    /\ UNCHANGED <<rootTree, moduleOpt, metaTree, subscription_plan_id,
                   resources, sorted_resources, twice, data, module_id, todo,
                   next_resource_id, moduleRows, resourceRows, moduleSeq,
                   resourceSeq, calls>>

NextData == GetModuleDataCall

SpecData == InitData /\ [][NextData]_vars

(***************************************************************************)
(* Properties                                                              *)
(***************************************************************************)
Range(list) == {list[i] : i \in 1..Len(list)}

Count(x, list) == Cardinality({i \in 1..Len(list) : list[i] = x})

IsPermutation(a, b) ==
    /\ Len(a) = Len(b)
    /\ \A x \in Range(a) \cup Range(b) : Count(x, a) = Count(x, b)

\* The elements of list named name, in the order of list.
RECURSIVE Named(_, _)
Named(list, name) ==
    IF list = <<>> THEN <<>>
    ELSE IF Head(list).name = name
    THEN <<Head(list)>> \o Named(Tail(list), name)
    ELSE Named(Tail(list), name)

Ascending(list) ==
    \A i, j \in 1..Len(list) :
        i < j => ~StrLess(list[j].name, list[i].name)

SortedOf(out, in) ==
    /\ IsPermutation(out, in)
    /\ Ascending(out)
    /\ \A n \in {x.name : x \in Range(in)} : Named(out, n) = Named(in, n)

\* C7: get_sorted_resources returns a permutation of its argument in
\* ascending order of name (code point by code point), equal names keeping
\* the order they had in the argument; applied to its own result it returns
\* that result; and the call leaves the list it was given as it was.
C7_SortedStableIdempotent ==
    /\ [](pc \in {"sorted", "sorted_twice"} =>
            SortedOf(sorted_resources, resources))
    /\ [](pc = "sorted_twice" => twice = sorted_resources)
    /\ [][resources' = resources]_vars

\* A list of three out of order, two of them of one name and different
\* content, has been sorted, and sorted again.
C7_Witness ==
    /\ pc = "sorted_twice"
    /\ Len(resources) = 3
    /\ resources # sorted_resources
    /\ \E i, j \in 1..3 :
           /\ i < j
           /\ resources[i].name = resources[j].name
           /\ resources[i].content # resources[j].content

\* The spec's error kinds, as get_module_data raises them.
MissingField == ModuleKeyError

InvalidField == PropertiesKeyError

ModuleKeys == DOMAIN data[1]["module"]

\* get_module_data fails with MissingField exactly when the key module is
\* absent, and otherwise with InvalidField exactly when the mapping under
\* module has a key other than name and description.
ValidationErrors ==
    /\ err = MissingField <=> "module" \notin DOMAIN data[1]
    /\ "module" \in DOMAIN data[1] =>
           (err = InvalidField <=> ~(ModuleKeys \subseteq PropertyKeys))

RECURSIVE ResourceCallsOf(_)
ResourceCallsOf(log) ==
    IF log = <<>> THEN <<>>
    ELSE IF Head(log).table = "resource"
    THEN <<Head(log)>> \o ResourceCallsOf(Tail(log))
    ELSE ResourceCallsOf(Tail(log))

ResourceCalls == ResourceCallsOf(calls)

\* The rows of the module this run has inserted.
ModuleResourceRows == {r \in resourceRows : r.ModuleId = module_id}

\* The ids met when following NextResourceId from id, for at most fuel rows.
RECURSIVE Follow(_, _)
Follow(id, fuel) ==
    IF fuel = 0 \/ id = Null \/ ~(\E r \in resourceRows : r.Id = id)
    THEN <<>>
    ELSE <<id>> \o Follow((CHOOSE r \in resourceRows : r.Id = id).NextResourceId,
                          fuel - 1)

\* A walk longer than the table has met some row twice.
Chain(id) == Follow(id, Cardinality(resourceRows) + 1)

\* The id of the row inserted for resources[i].
RowIdOf(i) ==
    ResourceCalls[CHOOSE j \in 1..Len(ResourceCalls) :
        ResourceCalls[j].index = i /\ ResourceCalls[j].outcome = "ok"].id

RowOf(id) == CHOOSE r \in resourceRows : r.Id = id

Inserted(i) ==
    \E j \in 1..Len(ResourceCalls) :
        ResourceCalls[j].index = i /\ ResourceCalls[j].outcome = "ok"

\* C1: after a successful upload of N >= 1 resources, the rows of the new
\* module, followed along NextResourceId from the row of the resource of
\* smallest name, are the rows of the resources in ascending order of name,
\* each of the N rows once, and the row of the last resource has no
\* successor.
C1_ChainInNameOrder ==
    (pc = "done" /\ Len(resources) >= 1) =>
        LET N == Len(resources)
        IN  /\ Ascending(resources)
            /\ \A i \in 1..N : Inserted(i)
            /\ Chain(RowIdOf(1)) = [i \in 1..N |-> RowIdOf(i)]
            /\ \A i, j \in 1..N : i # j => RowIdOf(i) # RowIdOf(j)
            /\ {r.Id : r \in ModuleResourceRows} = {RowIdOf(i) : i \in 1..N}
            /\ Cardinality(ModuleResourceRows) = N
            /\ \A i \in 1..N : RowOf(RowIdOf(i)).Content = resources[i].content
            /\ RowOf(RowIdOf(N)).NextResourceId = Null

\* Three resources, two of them of one name, have been uploaded to a store
\* that held another module.
C1_Witness ==
    /\ pc = "done"
    /\ Len(resources) = 3
    /\ resources[1].name = resources[2].name
    /\ Cardinality(moduleRows) = 2

\* C2 as claimed, for the modules that have a resource: once
\* record_resources has completed, exactly one row of the module has no
\* successor, and following the successors from the row of the first insert
\* call visits the N rows of the module once each.  (With no resource the
\* claim fails at once: no row is without a successor.)
C2_AsClaimed ==
    (pc = "done" /\ Len(resources) >= 1) =>
        /\ Cardinality({r \in ModuleResourceRows : r.NextResourceId = Null}) = 1
        /\ LET walk == Chain(ResourceCalls[1].id)
           IN  /\ Len(walk) = Len(resources)
               /\ {walk[i] : i \in 1..Len(walk)} =
                      {r.Id : r \in ModuleResourceRows}

\* C2, amended: once record_resources has completed for N >= 1 resources,
\* exactly one row of the module has no successor, the row of the first
\* insert call, and following the successors from the row of the last insert
\* call visits the N rows of the module once each and ends; for N = 0 the
\* module has no row.
C2_ChainFromLastPersisted ==
    pc = "done" =>
        LET N == Len(resources)
        IN  /\ N = 0 => ModuleResourceRows = {}
            /\ N >= 1 =>
                 /\ {r \in ModuleResourceRows : r.NextResourceId = Null} =
                        {RowOf(ResourceCalls[1].id)}
                 /\ LET walk == Chain(ResourceCalls[Len(ResourceCalls)].id)
                    IN  /\ Len(walk) = N
                        /\ Cardinality({walk[i] : i \in 1..Len(walk)}) = N
                        /\ {walk[i] : i \in 1..Len(walk)} =
                               {r.Id : r \in ModuleResourceRows}
                        /\ Cardinality(ModuleResourceRows) = N

\* record_resources has completed for two resources.
C2_Witness ==
    /\ pc = "done"
    /\ Len(resources) = 2
    /\ Len(ResourceCalls) = 2

\* C10: when every insert succeeds, record_resources has made one insert
\* call for each resource of its list, N calls for N resources, and the
\* module has N rows; for an empty list, no call and no row.
C10_OneInsertPerResource ==
    pc = "done" =>
        LET N == Len(resources)
        IN  /\ Len(ResourceCalls) = N
            /\ \A i \in 1..N :
                   Cardinality({j \in 1..Len(ResourceCalls) :
                                    ResourceCalls[j].index = i}) = 1
            /\ \A j \in 1..Len(ResourceCalls) : ResourceCalls[j].outcome = "ok"
            /\ Cardinality(ModuleResourceRows) = N
            /\ N = 0 => (ResourceCalls = <<>> /\ ModuleResourceRows = {})

\* record_resources has completed for three resources.
C10_Witness ==
    /\ pc = "done"
    /\ Len(resources) = 3
    /\ Len(ResourceCalls) = 3

\* record_resources has completed for no resource.
C10_EmptyReached ==
    /\ pc = "done"
    /\ Len(resources) = 0

\* The k-th call of record_resource has failed, after k - 1 that succeeded:
\* the run has ended with the error, the module row is there, with the rows
\* of the k - 1 resources last in order, chained up to a row of no successor.
FailedAtKth ==
    LET rc == ResourceCalls
        k == Len(rc)
        N == Len(resources)
    IN  (k >= 1 /\ InsertFailed(rc[k].outcome)) =>
            /\ pc = "error"
            /\ err = StorageError(rc[k].outcome)
            /\ rc[k].index = N + 1 - k
            /\ \E m \in moduleRows : m.Id = module_id
            /\ Cardinality(ModuleResourceRows) = k - 1
            /\ \A j \in 1..(k - 1) :
                   /\ rc[j].outcome = "ok"
                   /\ rc[j].index = N + 1 - j
                   /\ RowOf(rc[j].id) \in ModuleResourceRows
                   /\ RowOf(rc[j].id).Content = resources[N + 1 - j].content
            /\ k >= 2 =>
                   Chain(rc[k - 1].id) = [j \in 1..(k - 1) |-> rc[k - j].id]

\* C3: when the k-th insert of a resource fails, no further insert is
\* issued, nothing committed is removed, the store keeps the module row and
\* exactly the rows of the k - 1 resources inserted before, the last in
\* order of name, chained up to a row of no successor, and the run has
\* ended with an error.
C3_FailFastNoCompensation ==
    /\ []FailedAtKth
    /\ [][pc = "error" =>
             (calls' = calls /\ moduleRows' = moduleRows
                  /\ resourceRows' = resourceRows)]_vars
    /\ [][moduleRows \subseteq moduleRows'
             /\ resourceRows \subseteq resourceRows']_vars

\* The third of three inserts has failed at commit.
C3_Witness ==
    /\ pc = "error"
    /\ Len(resources) = 3
    /\ Len(ResourceCalls) = 3
    /\ ResourceCalls[3].outcome = "commit"
    /\ Cardinality(ModuleResourceRows) = 2

\* The store as it is.
Store ==
    [moduleRows |-> moduleRows, resourceRows |-> resourceRows,
     moduleSeq |-> moduleSeq, resourceSeq |-> resourceSeq]

\* The statements of upload, in the order they follow each other.
UploadOrder ==
    {<<"get_resources", "get_sorted_resources">>,
     <<"get_sorted_resources", "get_module">>,
     <<"get_module", "record_module">>,
     <<"record_module", "record_resources">>,
     <<"record_resources", "loop">>,
     <<"loop", "done">>}

InsertsAfterMetadata ==
    /\ calls # <<>> =>
           /\ pc \in {"record_resources", "loop", "done", "error"}
           /\ module \in {Module(d, n) : d, n \in {"A", "B"}}
           /\ Ascending(resources)
           /\ calls[1].table = "module"
           /\ \A i \in 2..Len(calls) : calls[i].table = "resource"
    /\ Len(calls) >= 2 =>
           /\ calls[1].outcome = "ok"
           /\ \E m \in moduleRows : m.Id = calls[1].id
           /\ \A i \in 2..Len(calls) : calls[i].module_id = calls[1].id
           /\ \A i \in 2..Len(calls) :
                  Committed(calls[i].outcome) =>
                      RowOf(calls[i].id).ModuleId = calls[1].id
    /\ (pc = "error" /\ err.kind # "psycopg2.Error") =>
           /\ calls = <<>>
           /\ Store \in {EmptyStore, UsedStore}
    /\ pc \in {"record_resources", "loop", "done"} =>
           (calls # <<>> /\ calls[1].outcome = "ok")

\* C4: upload discovers, orders, loads the metadata, inserts the module and
\* then the resources, in that order: no insert is issued unless discovery,
\* ordering and the loading of the metadata have succeeded, a failure of
\* these leaves the store as it was, the module is inserted once, before
\* any resource, and every resource row carries the id that insert returned.
C4_StepsInOrder ==
    /\ []InsertsAfterMetadata
    /\ [][pc' # pc => (<<pc, pc'>> \in UploadOrder \/ pc' = "error")]_vars

\* Two resources have been inserted after the module.
C4_Witness ==
    /\ pc = "done"
    /\ Len(calls) = 3
    /\ calls[1].id = 2

\* The successor id of each call: none for the first, then the id the call
\* before it returned; the calls go from the last resource to the first.
ReverseProtocol ==
    LET rc == ResourceCalls
        N == Len(resources)
    IN  \A j \in 1..Len(rc) :
            /\ rc[j].index = N + 1 - j
            /\ rc[j].next_resource_id = IF j = 1 THEN Null ELSE rc[j - 1].id
            /\ j < Len(rc) => rc[j].outcome = "ok"
            /\ Committed(rc[j].outcome) =>
                   RowOf(rc[j].id).NextResourceId = rc[j].next_resource_id

SuccessorsExist ==
    \A r \in resourceRows :
        \/ r.NextResourceId = Null
        \/ \E q \in resourceRows : q.Id = r.NextResourceId

\* C9: record_resources inserts from the last resource to the first; the
\* successor id of the first insert is null and that of every later insert
\* is the id the insert before it returned; so each row's successor is null
\* or the id of a row of the store, and no row is updated once inserted.
C9_ReverseInsertion ==
    /\ []ReverseProtocol
    /\ []SuccessorsExist
    /\ [][resourceRows \subseteq resourceRows']_vars

\* Two of three resources have been inserted.
C9_Witness ==
    /\ pc = "loop"
    /\ Len(resources) = 3
    /\ Len(ResourceCalls) = 2
    /\ next_resource_id # Null

\* The spec's NotFound, as get_module raises it.
NotFound == NoFileError

\* The files of a recognized descriptor extension, at any depth.
Descriptors ==
    {e \in ModulePathTree :
        e.kind = "file" /\ Suffix(e.name) \in {DotYml, DotYaml}}

GetModuleHasRun ==
    \/ pc \in {"record_module", "record_resources", "loop", "done"}
    \/ pc = "error" /\ err # ReadTextError

\* C5: get_module fails with NotFound when no file of extension .yml or
\* .yaml is found at any depth, with an error of another kind than NotFound
\* when more than one is; a descriptor is parsed only when there is exactly
\* one; in both failures nothing is parsed and no Module is returned.
C5_AsClaimed ==
    GetModuleHasRun =>
        /\ Cardinality(Descriptors) = 0 =>
               /\ pc = "error"
               /\ err = NotFound
               /\ data = <<>>
               /\ module = NoModule
        /\ Cardinality(Descriptors) > 1 =>
               /\ pc = "error"
               /\ err.kind # NotFound.kind
               /\ data = <<>>
               /\ module = NoModule
        /\ data # <<>> => Cardinality(Descriptors) = 1

\* The entries of the tree whose name ends in .html.
HtmlEntries == {e \in rootTree : EndsWith(e.name, DotHtml)}

\* list has one resource for each entry of S, with its name and its text.
OnePerEntry(list, S) ==
    /\ Len(list) = Cardinality(S)
    /\ \A e \in S :
           Count(Resource(e.text, e.name), list) =
               Cardinality({f \in S : f.text = e.text /\ f.name = e.name})

====
